---- MODULE Spec2Model ----
(***************************************************************************)
(* Model of artiq/gateware/wrpll/thls.py: the tiny HLS compiler made of    *)
(* the IR builder (ASTCompiler), the list scheduler with its register      *)
(* allocator (Scheduler), compile() and the instruction encoder            *)
(* (CompiledProgram / Processor.encode_instruction).                       *)
(***************************************************************************)
EXTENDS Integers, Sequences, FiniteSets, TLC

VARIABLES
    body,            \* the statements of the function handed to compile()
    pc,              \* position of compile() / __main__
    err,             \* the exception that ended the run, "" if none
    idx,             \* index of the next body node the second loop emits
    program,         \* ASTCompiler.program
    data,            \* ASTCompiler.data
    next_ssa_reg,    \* ASTCompiler.next_ssa_reg
    constants,       \* ASTCompiler.constants
    names,           \* ASTCompiler.names
    globals,         \* ASTCompiler.globals
    reserved_data,   \* Scheduler.reserved_data
    used_registers,  \* Scheduler.used_registers
    exits,           \* Scheduler.exits: cycle -> <<virtual, physical>>
    remaining,       \* Scheduler.remaining
    output,          \* Scheduler.output
    last_alloc,      \* register returned by the latest allocate_register
    last_freed,      \* registers passed to free_register by the latest issue
    issued,          \* per slot of output, the IR instruction it was rewritten from
    cp_data,         \* CompiledProgram.data
    cp_exits,        \* CompiledProgram.exits: cycle -> physical
    program_rom_size, \* Processor.program_rom_size
    data_ram_size,   \* Processor.data_ram_size
    reg_bits,        \* Processor.reg_bits
    words            \* result of CompiledProgram.encode()

vars == <<body, pc, err, idx, program, data, next_ssa_reg, constants, names,
          globals, reserved_data, used_registers, exits, remaining, output,
          last_alloc, last_freed, issued, cp_data, cp_exits,
          program_rom_size, data_ram_size, reg_bits, words>>

astVars == <<program, data, next_ssa_reg, constants, names, globals>>
schedVars == <<reserved_data, used_registers, exits, remaining, output,
               last_alloc, last_freed, issued>>
cpVars == <<cp_data, cp_exits>>
procVars == <<program_rom_size, data_ram_size, reg_bits, words>>

----------------------------------------------------------------------------
(* Bounds of the generated input family.                                   *)
MaxStmts == 2

(* Processor parameters.                                                   *)
multiplier_stages == 2
opcode_bits == 3

----------------------------------------------------------------------------
(* Small helpers.                                                          *)

EmptyMap == [k \in {} |-> 0]

Range(s) == {s[i] : i \in DOMAIN s}

RECURSIVE SetMax(_)
SetMax(S) ==
    LET e == CHOOSE v \in S : TRUE
    IN  IF S = {e} THEN e
        ELSE LET m == SetMax(S \ {e}) IN IF e > m THEN e ELSE m

RECURSIVE SetMin(_)
SetMin(S) ==
    LET e == CHOOSE v \in S : TRUE
    IN  IF S = {e} THEN e
        ELSE LET m == SetMin(S \ {e}) IN IF e < m THEN e ELSE m

RECURSIVE Pow2(_)
Pow2(n) == IF n <= 0 THEN 1 ELSE 2 * Pow2(n - 1)

(* mutant: the position of the highest set bit, one less than the length *)
RECURSIVE HighestBit(_)
HighestBit(n) == IF n <= 1 THEN 0 ELSE 1 + HighestBit(n \div 2)

RECURSIVE BitLength(_)
BitLength(n) ==
    IF n = 0 THEN 0 ELSE IF n < 0 THEN BitLength(-n) ELSE 1 + BitLength(n \div 2)

RECURSIVE BitOr(_, _)
BitOr(a, b) ==
    IF a = 0 THEN b
    ELSE IF b = 0 THEN a
    ELSE (IF a % 2 = 1 \/ b % 2 = 1 THEN 1 ELSE 0) + 2 * BitOr(a \div 2, b \div 2)

(* mutant: the head of the list is removed, whatever was asked           *)
RemoveHead(s, i) == Tail(s)

RemoveAt(s, i) == SubSeq(s, 1, i - 1) \o SubSeq(s, i + 1, Len(s))

Zeros(n) == [i \in 1..(IF n > 0 THEN n ELSE 0) |-> 0]

----------------------------------------------------------------------------
(* The input trees (ast nodes).                                            *)

Num(n) == [k |-> "Num", n |-> n]
Name(id) == [k |-> "Name", id |-> id]
BinOp(left, op, right) == [k |-> "BinOp", op |-> op, left |-> left, right |-> right]
Assign(target, value) == [k |-> "Assign", targets |-> <<target>>, value |-> value]
Return(value) == [k |-> "Return", value |-> value]
Global(ns) == [k |-> "Global", names |-> ns]

arg == "x"

(* def simple_test(x): a = 5 + 3; return a*4 *)
simple_test ==
    << Assign("a", BinOp(Num(5), "Add", Num(3))),
       Return(BinOp(Name("a"), "Mult", Num(4))) >>

(* def foo(x): global a, b, c; c = b; b = a; a = x;
               return 4748*a + 259*b - 155*c *)
foo ==
    << Global(<<"a", "b", "c">>),
       Assign("c", Name("b")),
       Assign("b", Name("a")),
       Assign("a", Name("x")),
       Return(BinOp(BinOp(BinOp(Num(4748), "Mult", Name("a")), "Add",
                          BinOp(Num(259), "Mult", Name("b"))), "Sub",
                    BinOp(Num(155), "Mult", Name("c")))) >>

(* global g; g = x + 1; return g + g *)
global_test ==
    << Global(<<"g">>),
       Assign("g", BinOp(Name("x"), "Add", Num(1))),
       Return(BinOp(Name("g"), "Add", Name("g"))) >>

(* a = 2 + 2 *)
interning_test == << Assign("a", BinOp(Num(2), "Add", Num(2))) >>

(* An operator outside the vocabulary: a = x / 2 *)
unsupported_test == << Assign("a", BinOp(Name("x"), "Div", Num(2))) >>

(* A producer still in flight when a later, shorter operation is ready:   *)
(* a = x * x; return (x + 2) - a                                           *)
collision_test ==
    << Assign("a", BinOp(Name("x"), "Mult", Name("x"))),
       Return(BinOp(BinOp(Name("x"), "Add", Num(2)), "Sub", Name("a"))) >>

(* A value read by two instructions, one of them with a second operand   *)
(* that is read for the last time: a = x + 2; return (a * x) - a           *)
reuse_test ==
    << Assign("a", BinOp(Name("x"), "Add", Num(2))),
       Return(BinOp(BinOp(Name("a"), "Mult", Name("x")), "Sub", Name("a"))) >>

Scenarios ==
    {simple_test, foo, global_test, interning_test, unsupported_test, collision_test,
     reuse_test}

(* The generated family: bodies of up to MaxStmts statements, an optional  *)
(* `global g` first among them, then assignments and returns over          *)
(* one-operator expressions, a return only in last place.                  *)
(* The name assigned is g when it is declared global, a otherwise.         *)
GenOps == {"Add", "Mult"}

Target(hasG) == IF hasG THEN "g" ELSE "a"

Leaves(hasG) == {Name("x"), Num(2), Name(Target(hasG))}

Exprs(hasG) ==
    Leaves(hasG)
      \cup {BinOp(l, op, r) : l \in Leaves(hasG), op \in GenOps, r \in Leaves(hasG)}

Assigns(hasG) == {Assign(Target(hasG), e) : e \in Exprs(hasG)}

Returns(hasG) == {Return(e) : e \in Exprs(hasG)}

RECURSIVE AssignSeqs(_, _)
AssignSeqs(hasG, n) ==
    IF n = 0 THEN {<<>>}
    ELSE LET shorter == AssignSeqs(hasG, n - 1)
         IN  shorter \cup {Append(s, a) : s \in shorter, a \in Assigns(hasG)}

Bodies(hasG, n) ==
    LET pre == AssignSeqs(hasG, n - 1)
    IN  {s \in AssignSeqs(hasG, n) : Len(s) > 0}
          \cup {Append(s, r) : s \in pre, r \in Returns(hasG)}

Generated ==
    Bodies(FALSE, MaxStmts)
      \cup {<<Global(<<"g">>)>> \o b : b \in Bodies(TRUE, MaxStmts - 1)}

Functions == Scenarios \cup Generated

----------------------------------------------------------------------------
(* Instruction model.                                                      *)

NoImmediate == <<>>

Isn(cls, inputs, outputs) ==
    [cls |-> cls, immediate |-> NoImmediate, inputs |-> inputs, outputs |-> outputs]

NopIsn == Isn("NopIsn", <<>>, <<>>)

Opcode(cls) ==
    CASE cls = "NopIsn" -> 0
      [] cls = "AddIsn" -> 1
      [] cls = "SubIsn" -> 2
      [] cls = "MulIsn" -> 3
      [] cls = "CopyIsn" -> 4
      [] cls = "InputIsn" -> 5
      [] cls = "OutputIsn" -> 6

HasLatency(cls) == cls \in {"AddIsn", "SubIsn", "MulIsn", "CopyIsn", "InputIsn"}

(* mutant: the multiplier's latency without the issue cycle              *)
latency_without_issue_cycle(cls) ==
    CASE cls = "AddIsn" -> 2
      [] cls = "SubIsn" -> 2
      [] cls = "MulIsn" -> multiplier_stages
      [] cls = "CopyIsn" -> 1
      [] cls = "InputIsn" -> 1

get_instruction_latency(cls) ==
    CASE cls = "AddIsn" -> 2
      [] cls = "SubIsn" -> 2
      [] cls = "MulIsn" -> 1 + multiplier_stages
      [] cls = "CopyIsn" -> 1
      [] cls = "InputIsn" -> 1

----------------------------------------------------------------------------
(* ASTCompiler.  The builder's fields travel in a record st; err is the    *)
(* exception raised ("" if none) and ret the value emit returns.           *)

ASTCompilerInit ==
    [program |-> <<>>, data |-> <<>>, next_ssa_reg |-> -1,
     constants |-> EmptyMap, names |-> EmptyMap, globals |-> EmptyMap,
     err |-> "", ret |-> 0]

Put(map, key, val) == [x \in (DOMAIN map) \cup {key} |-> IF x = key THEN val ELSE map[x]]

add_global(st, name) ==
    LET r == Len(st.data)
    IN  [st EXCEPT !.data = Append(st.data, 0),
                   !.names = Put(st.names, name, r),
                   !.globals = Put(st.globals, name, r),
                   !.ret = r]

RECURSIVE add_globals(_, _)
add_globals(st, ns) ==
    IF ns = <<>> THEN st ELSE add_globals(add_global(st, Head(ns)), Tail(ns))

(* mutant: the register of the parameter is handed out again              *)
input_keeps_next(st, name) ==
    LET target == st.next_ssa_reg
    IN  [st EXCEPT !.program = Append(st.program, Isn("InputIsn", <<>>, <<target>>)),
                   !.names = Put(st.names, name, target)]

input(st, name) ==
    LET target == st.next_ssa_reg
    IN  [st EXCEPT !.next_ssa_reg = target - 1,
                   !.program = Append(st.program, Isn("InputIsn", <<>>, <<target>>)),
                   !.names = Put(st.names, name, target)]

BinOpClass(op) ==
    CASE op = "Add" -> "AddIsn"
      [] op = "Sub" -> "SubIsn"
      [] op = "Mult" -> "MulIsn"
      [] OTHER -> "NotImplemented"

(* mutant: every literal gets a slot of its own                           *)
intern_always_append(st, n) ==
    LET r == Len(st.data)
    IN  [st EXCEPT !.data = Append(st.data, n),
                   !.constants = Put(st.constants, n, r),
                   !.ret = r]

(* emit, the ast.Num branch: the slot of literal n, appended on first use  *)
intern(st, n) ==
    IF n \in DOMAIN st.constants
    THEN [st EXCEPT !.ret = st.constants[n]]
    ELSE LET r == Len(st.data)
         IN  [st EXCEPT !.data = Append(st.data, n),
                        !.constants = Put(st.constants, n, r),
                        !.ret = r]

RECURSIVE emit(_, _)
emit(st, node) ==
    IF st.err # "" THEN st
    ELSE CASE node.k = "BinOp" ->
                LET l == emit(st, node.left)
                    r == emit(l, node.right)
                    cls == BinOpClass(node.op)
                    out == r.next_ssa_reg
                IN  IF r.err # "" THEN r
                    ELSE IF cls = "NotImplemented"
                    THEN [r EXCEPT !.err = "NotImplementedError"]
                    ELSE [r EXCEPT !.next_ssa_reg = out - 1,
                                   !.program = Append(r.program,
                                                 Isn(cls, <<l.ret, r.ret>>, <<out>>)),
                                   !.ret = out]
           [] node.k = "Num" -> intern(st, node.n)
           [] node.k = "Name" ->
                IF node.id \in DOMAIN st.names
                THEN [st EXCEPT !.ret = st.names[node.id]]
                ELSE [st EXCEPT !.err = "KeyError"]
           [] node.k = "Assign" ->
                LET v == emit(st, node.value)
                IN  IF v.err # "" THEN v
                    ELSE [v EXCEPT !.names = Put(v.names, node.targets[1], v.ret)]
           [] node.k = "Return" ->
                LET v == emit(st, node.value)
                IN  IF v.err # "" THEN v
                    ELSE [v EXCEPT !.program = Append(v.program,
                                                 Isn("OutputIsn", <<v.ret>>, <<>>))]
           [] node.k = "Global" -> st
           [] OTHER -> [st EXCEPT !.err = "NotImplementedError"]

----------------------------------------------------------------------------
(* Scheduler.                                                              *)

None == -1

(* mutant: the reserved slots counted from 1                               *)
ReservedFromOne(n) == 1..(n - 1)

(* Scheduler.__init__: set(range(reserved_data))                           *)
ReservedRegisters(n) == 0..(n - 1)

(* mutant: always the register above the highest one in use              *)
allocate_above_highest(used) == SetMax(used) + 1

(* mutant: the highest register in use is handed out again                *)
allocate_highest_used(used) == SetMax(used)

allocate_register(used) ==
    SetMin((0..(SetMax(used) + 1)) \ used)

(* mutant: the scan takes an exit of any cycle, retired or not            *)
find_input_any_cycle(ex, cycle, inp) ==
    IF inp >= 0 THEN inp
    ELSE LET cs == {i \in DOMAIN ex : ex[i][1] = inp}
         IN  IF cs = {} THEN None ELSE ex[SetMin(cs)][2]

(* mutant: the scan includes the current cycle                            *)
find_input_current_cycle(ex, cycle, inp) ==
    IF inp >= 0 THEN inp
    ELSE LET cs == {i \in 0..cycle : i \in DOMAIN ex /\ ex[i][1] = inp}
         IN  IF cs = {} THEN None ELSE ex[SetMin(cs)][2]

(* The scan of find_inputs for one virtual input: the first cycle below    *)
(* `cycle` whose exit carries the virtual register.                        *)
find_input(ex, cycle, inp) ==
    IF inp >= 0 THEN inp
    ELSE LET cs == {i \in 0..(cycle - 1) : i \in DOMAIN ex /\ ex[i][1] = inp}
         IN  IF cs = {} THEN None ELSE ex[SetMin(cs)][2]

find_inputs(ex, cycle, isn) ==
    LET m == [j \in 1..Len(isn.inputs) |-> find_input(ex, cycle, isn.inputs[j])]
    IN  [found |-> \A j \in 1..Len(isn.inputs) : m[j] # None, mapped_inputs |-> m]

ExitCycle(cycle, isn) == cycle + get_instruction_latency(isn.cls)

(* mutant: the retirement cycle is not looked up in exits                 *)
CanScheduleAnyExit(ex, cycle, isn) == find_inputs(ex, cycle, isn).found

(* schedule_one returns True (or raises) for isn at this cycle.            *)
CanSchedule(ex, cycle, isn) ==
    /\ find_inputs(ex, cycle, isn).found
    /\ isn.outputs # <<>> => ExitCycle(cycle, isn) \notin DOMAIN ex

(* mutant: the scan of remaining keeps the last instruction accepted      *)
LastSchedulable(rem, ex, cycle) ==
    LET ok == {i \in 1..Len(rem) : CanSchedule(ex, cycle, rem[i])}
    IN  IF ok = {} THEN 0 ELSE SetMax(ok)

(* The first instruction of remaining that schedule_one accepts, 0 if none *)
FirstSchedulable(rem, ex, cycle) ==
    LET ok == {i \in 1..Len(rem) : CanSchedule(ex, cycle, rem[i])}
    IN  IF ok = {} THEN 0 ELSE SetMin(ok)

(* mutant: a virtual input is freed without a look at remaining          *)
can_free_any_virtual(rem, inp) == inp < 0

(* can_free of schedule_one for input inp, rem being remaining after the   *)
(* removal of the issued instruction.                                      *)
can_free(rem, inp) ==
    inp < 0 /\ \A i \in 1..Len(rem) : \A j \in 1..Len(rem[i].inputs) : rem[i].inputs[j] # inp

(* The positions of isn.inputs whose register schedule_one frees.         *)
FreePositions(rem, isn) == {q \in 1..Len(isn.inputs) : can_free(rem, isn.inputs[q])}

(* The body of schedule_one past "Instruction can be scheduled", for the   *)
(* i-th instruction of remaining.  free_register asserts r >= reserved_data *)
(* and allocate_register takes max() of used_registers: both can raise,    *)
(* leaving the scheduler with what was mutated before.                     *)
schedule_one(i) ==
    LET isn == remaining[i]
        cycle == Len(output)
        mapped == find_inputs(exits, cycle, isn).mapped_inputs
        rem == RemoveAt(remaining, i)
        pos == FreePositions(rem, isn)
        bad == {q \in pos : mapped[q] < reserved_data}
        assert_fails == bad # {}
        done == IF assert_fails THEN {q \in pos : q < SetMin(bad)} ELSE pos
        freed == {mapped[q] : q \in done}
        used == used_registers \ freed
        has_out == isn.outputs # <<>>
        alloc_fails == ~assert_fails /\ has_out /\ used = {}
        r == IF has_out /\ ~assert_fails /\ ~alloc_fails
             THEN allocate_register(used) ELSE None
    IN  [remaining |-> rem,
         freed |-> freed,
         err |-> IF assert_fails THEN "AssertionError"
                 ELSE IF alloc_fails THEN "ValueError" ELSE "",
         used_registers |-> IF r = None THEN used ELSE used \cup {r},
         alloc |-> r,
         exits |-> IF r = None THEN exits
                   ELSE Put(exits, ExitCycle(cycle, isn), <<isn.outputs[1], r>>),
         slot |-> [cls |-> isn.cls, immediate |-> isn.immediate,
                   inputs |-> mapped, outputs |-> <<>>],
         isn |-> isn]

----------------------------------------------------------------------------
(* compile(), CompiledProgram and the encoder.                             *)

(* mutant: max_reg without the registers of the Exit Map                  *)
max_reg_inputs_only(out, ex) ==
    SetMax({SetMax(Range(out[i].inputs) \cup {0}) : i \in 1..Len(out)})

SeqMax0(s) == SetMax(Range(s) \cup {0})

max_reg(out, ex) ==
    LET a == SetMax({SeqMax0(out[i].inputs) : i \in 1..Len(out)})
        b == SetMax({ex[c][2] : c \in DOMAIN ex})
    IN  IF a > b THEN a ELSE b

(* mutant: the fields shifted in from the opcode to the exit              *)
encode_instruction_opcode_first(isn, exit, rbits) ==
    LET opcode == Opcode(isn.cls)
        r0 == IF Len(isn.inputs) >= 1 THEN isn.inputs[1] ELSE 0
        r1 == IF Len(isn.inputs) >= 2 THEN isn.inputs[2] ELSE 0
        w1 == BitOr(0 * Pow2(opcode_bits), opcode)
        w2 == BitOr(w1 * Pow2(rbits), r0)
        w3 == BitOr(w2 * Pow2(rbits), r1)
    IN  BitOr(w3 * Pow2(rbits), exit)

encode_instruction(isn, exit, rbits) ==
    LET opcode == Opcode(isn.cls)
        r0 == IF isn.immediate # NoImmediate THEN isn.immediate[1]
              ELSE IF Len(isn.inputs) >= 1 THEN isn.inputs[1] ELSE 0
        r1 == IF isn.immediate # NoImmediate
              THEN (IF Len(isn.inputs) >= 1 THEN isn.inputs[1] ELSE 0)
              ELSE (IF Len(isn.inputs) >= 2 THEN isn.inputs[2] ELSE 0)
        w1 == BitOr(0 * Pow2(rbits), exit)
        w2 == BitOr(w1 * Pow2(rbits), r1)
        w3 == BitOr(w2 * Pow2(rbits), r0)
    IN  BitOr(w3 * Pow2(opcode_bits), opcode)

Get(map, key, default) == IF key \in DOMAIN map THEN map[key] ELSE default

(* mutant: the exit looked up one cycle late                              *)
encode_next_cycle(prog, ex, rbits) ==
    [i \in 1..Len(prog) |-> encode_instruction(prog[i], Get(ex, i, 0), rbits)]

encode(prog, ex, rbits) ==
    [i \in 1..Len(prog) |-> encode_instruction(prog[i], Get(ex, i - 1, 0), rbits)]

instruction_bits(rbits) == 3 * rbits + opcode_bits

----------------------------------------------------------------------------
(* The state machine: compile(processor, function) followed by             *)
(* dimension_memories() and encode(), as __main__ runs them.               *)

Init ==
    /\ body \in Functions
    /\ pc = "globals"
    /\ err = ""
    /\ idx = 1
    /\ program = <<>>
    /\ data = <<>>
    /\ next_ssa_reg = -1
    /\ constants = EmptyMap
    /\ names = EmptyMap
    /\ globals = EmptyMap
    /\ reserved_data = 0
    /\ used_registers = {}
    /\ exits = EmptyMap
    /\ remaining = <<>>
    /\ output = <<>>
    /\ last_alloc = None
    /\ last_freed = {}
    /\ issued = <<>>
    /\ cp_data = <<>>
    /\ cp_exits = EmptyMap
    /\ program_rom_size = None
    /\ data_ram_size = None
    /\ reg_bits = None
    /\ words = <<>>

ASTState ==
    [program |-> program, data |-> data, next_ssa_reg |-> next_ssa_reg,
     constants |-> constants, names |-> names, globals |-> globals,
     err |-> "", ret |-> 0]

SetAST(st) ==
    /\ program' = st.program
    /\ data' = st.data
    /\ next_ssa_reg' = st.next_ssa_reg
    /\ constants' = st.constants
    /\ names' = st.names
    /\ globals' = st.globals

RECURSIVE GlobalNames(_)
GlobalNames(b) ==
    IF b = <<>> THEN <<>>
    ELSE (IF Head(b).k = "Global" THEN Head(b).names ELSE <<>>) \o GlobalNames(Tail(b))

(* compile: the first loop over body, add_global for every declared name  *)
AddGlobals ==
    /\ pc = "globals"
    /\ SetAST(add_globals(ASTState, GlobalNames(body)))
    /\ pc' = "input"
    /\ UNCHANGED <<body, err, idx, schedVars, cpVars, procVars>>

(* compile: arg_r = astcompiler.input(arg)                                 *)
BindInput ==
    /\ pc = "input"
    /\ SetAST(input(ASTState, arg))
    /\ pc' = "emit"
    /\ UNCHANGED <<body, err, idx, schedVars, cpVars, procVars>>

(* compile: one turn of the second loop, astcompiler.emit(node)            *)
EmitNode ==
    /\ pc = "emit"
    /\ idx <= Len(body)
    /\ LET st == emit(ASTState, body[idx])
       IN  /\ st.err = ""
           /\ SetAST(st)
           /\ idx' = IF body[idx].k = "Return" THEN Len(body) + 1 ELSE idx + 1
    /\ UNCHANGED <<body, pc, err, schedVars, cpVars, procVars>>

(* compile: emit raises (KeyError of names[...], NotImplementedError)      *)
EmitRaise ==
    /\ pc = "emit"
    /\ idx <= Len(body)
    /\ LET st == emit(ASTState, body[idx])
       IN  /\ st.err # ""
           /\ SetAST(st)
           /\ err' = st.err
    /\ pc' = "failed"
    /\ UNCHANGED <<body, idx, schedVars, cpVars, procVars>>

(* compile: scheduler = Scheduler(processor, len(astcompiler.data), ...)   *)
NewScheduler ==
    /\ pc = "emit"
    /\ idx > Len(body)
    /\ reserved_data' = Len(data)
    /\ used_registers' = ReservedRegisters(Len(data))
    /\ exits' = EmptyMap
    /\ remaining' = program
    /\ output' = <<>>
    /\ pc' = "schedule"
    /\ UNCHANGED <<body, err, idx, astVars, last_alloc, last_freed, issued,
                   cpVars, procVars>>

(* schedule: a turn of the while loop in which schedule_one succeeds       *)
ScheduleIssue ==
    /\ pc = "schedule"
    /\ remaining # <<>>
    /\ LET i == FirstSchedulable(remaining, exits, Len(output))
       IN  /\ i # 0
           /\ LET s == schedule_one(i)
              IN  /\ s.err = ""
                  /\ remaining' = s.remaining
                  /\ used_registers' = s.used_registers
                  /\ exits' = s.exits
                  /\ output' = Append(output, s.slot)
                  /\ issued' = Append(issued, s.isn)
                  /\ last_alloc' = s.alloc
                  /\ last_freed' = s.freed
    /\ UNCHANGED <<body, pc, err, idx, astVars, reserved_data, cpVars, procVars>>

(* schedule: schedule_one raises on the way (free_register's assertion,    *)
(* max() of an empty used_registers in allocate_register)                  *)
ScheduleRaise ==
    /\ pc = "schedule"
    /\ remaining # <<>>
    /\ LET i == FirstSchedulable(remaining, exits, Len(output))
       IN  /\ i # 0
           /\ LET s == schedule_one(i)
              IN  /\ s.err # ""
                  /\ remaining' = s.remaining
                  /\ used_registers' = s.used_registers
                  /\ last_freed' = s.freed
                  /\ err' = s.err
    /\ pc' = "failed"
    /\ UNCHANGED <<body, idx, astVars, reserved_data, exits, output, last_alloc,
                   issued, cpVars, procVars>>

(* schedule: a turn of the while loop in which no instruction is accepted  *)
ScheduleNop ==
    /\ pc = "schedule"
    /\ remaining # <<>>
    /\ FirstSchedulable(remaining, exits, Len(output)) = 0
    /\ output' = Append(output, NopIsn)
    /\ issued' = Append(issued, NopIsn)
    /\ UNCHANGED <<body, pc, err, idx, astVars, reserved_data, used_registers,
                   exits, remaining, last_alloc, last_freed, cpVars, procVars>>

(* mutant: the padding one no-op short                                    *)
PadCountShort(out, ex) == SetMax(DOMAIN ex) - Len(out)

(* schedule: the number of no-ops appended after the loop                  *)
PadCount(out, ex) == SetMax(DOMAIN ex) - Len(out) + 1

(* schedule: the padding after the loop, and the return                    *)
SchedulePad ==
    /\ pc = "schedule"
    /\ remaining = <<>>
    /\ IF DOMAIN exits = {}
       THEN /\ pc' = "failed"
            /\ err' = "ValueError"
            /\ UNCHANGED <<output, issued>>
       ELSE /\ pc' = "scheduled"
            /\ output' = output \o [i \in 1..PadCount(output, exits) |-> NopIsn]
            /\ issued' = issued \o [i \in 1..PadCount(output, exits) |-> NopIsn]
            /\ UNCHANGED err
    /\ UNCHANGED <<body, idx, astVars, reserved_data, used_registers, exits,
                   remaining, last_alloc, last_freed, cpVars, procVars>>

(* compile: max_reg and the CompiledProgram it returns                     *)
Compiled ==
    /\ pc = "scheduled"
    /\ cp_exits' = [c \in DOMAIN exits |-> exits[c][2]]
    /\ cp_data' = data \o Zeros(max_reg(output, exits) - Len(data) + 1)
    /\ pc' = "compiled"
    /\ UNCHANGED <<body, err, idx, astVars, schedVars, procVars>>

(* CompiledProgram.dimension_memories                                      *)
DimensionMemories ==
    /\ pc = "compiled"
    /\ program_rom_size' = Len(output)
    /\ data_ram_size' = Len(cp_data)
    /\ reg_bits' = BitLength(Len(cp_data) - 1)
    /\ pc' = "dimensioned"
    /\ UNCHANGED <<body, err, idx, astVars, schedVars, cpVars, words>>

(* CompiledProgram.encode                                                  *)
Encode ==
    /\ pc = "dimensioned"
    /\ words' = encode(output, cp_exits, reg_bits)
    /\ pc' = "encoded"
    /\ UNCHANGED <<body, err, idx, astVars, schedVars, cpVars,
                   program_rom_size, data_ram_size, reg_bits>>

Next ==
    \/ AddGlobals
    \/ BindInput
    \/ EmitNode
    \/ EmitRaise
    \/ NewScheduler
    \/ ScheduleIssue
    \/ ScheduleRaise
    \/ ScheduleNop
    \/ SchedulePad
    \/ Compiled
    \/ DimensionMemories
    \/ Encode

Spec == Init /\ [][Next]_vars

----------------------------------------------------------------------------
(* Vocabulary of the properties.  Slot s of output is cycle s - 1.         *)

Scheduling == pc \in {"schedule", "scheduled", "compiled", "dimensioned", "encoded"}
             \/ (pc = "failed" /\ err \in {"ValueError", "AssertionError"})
ScheduleReturned == pc \in {"scheduled", "compiled", "dimensioned", "encoded"}

Slots == 1..Len(output)
Cycle(s) == s - 1
OutputSlots == {s \in 1..Len(issued) : issued[s].outputs # <<>>}
Retire(s) == Cycle(s) + get_instruction_latency(issued[s].cls)

(* The slot that holds IR instruction program[i], 0 if it is not issued    *)
SlotOf(i) ==
    LET ss == {s \in 1..Len(issued) : issued[s] = program[i]}
    IN  IF ss = {} THEN 0 ELSE SetMin(ss)

Field(w, lo, bits) == (w \div Pow2(lo)) % Pow2(bits)

----------------------------------------------------------------------------
(* C1: schedule hazard-freedom.  Every input of a scheduled instruction    *)
(* that was a virtual register v in the IR is resolved to the register the *)
(* Exit Map records for v, and that entry is at a cycle no later than the  *)
(* cycle the instruction is issued at.                                     *)
HazardFree ==
    \A s \in Slots : \A j \in 1..Len(issued[s].inputs) :
        LET v == issued[s].inputs[j]
            es == {e \in DOMAIN exits : exits[e][1] = v}
        IN  IF v >= 0 THEN output[s].inputs[j] = v
            ELSE /\ es # {}
                 /\ \A e \in es : exits[e][2] = output[s].inputs[j] /\ e <= Cycle(s)

WitnessHazardFree ==
    /\ pc = "scheduled"
    /\ \E s \in Slots : \E j \in 1..Len(issued[s].inputs) :
          /\ issued[s].inputs[j] < 0
          /\ issued[s].cls = "MulIsn"
          /\ \E e \in DOMAIN exits : exits[e][1] = issued[s].inputs[j] /\ e + 1 = Cycle(s)

(* C2: single retirement port.  No two issued instructions with an output  *)
(* retire at the same cycle, and the Exit Map entry of every one of them   *)
(* is still its own: no later issue has overwritten it.                    *)
SingleRetirementPort ==
    /\ \A s \in OutputSlots :
          /\ Retire(s) \in DOMAIN exits
          /\ exits[Retire(s)][1] = issued[s].outputs[1]
    /\ \A s1, s2 \in OutputSlots : s1 # s2 => Retire(s1) # Retire(s2)
    /\ Cardinality(DOMAIN exits) = Cardinality(OutputSlots)

(* an instruction whose inputs are ready is held back: its retirement      *)
(* cycle is taken                                                          *)
WitnessSingleRetirementPort ==
    /\ pc = "schedule"
    /\ Cardinality(DOMAIN exits) >= 2
    /\ \E i \in 1..Len(remaining) :
          /\ remaining[i].outputs # <<>>
          /\ find_inputs(exits, Len(output), remaining[i]).found
          /\ ExitCycle(Len(output), remaining[i]) \in DOMAIN exits

(* C3: register allocation never fails.  No call of allocate_register      *)
(* raises, whatever the number of globals and constants.                   *)
AllocationNeverFails == ~(pc = "failed" /\ err = "ValueError")

(* C4: scheduling terminates.  The scheduling loop ends only with the      *)
(* working set of not-yet-scheduled instructions empty.                    *)
SchedulingEmptiesWorkingSet ==
    (pc # "schedule" /\ Scheduling) => remaining = <<>>

(* C5: in global g; g = x + 1; return g + g the value assigned to g is     *)
(* written to g's reserved slot and both reads of g address that slot.     *)
GlobalUsesReservedSlot ==
    (body = global_test /\ ScheduleReturned) =>
        /\ SlotOf(2) # 0 /\ SlotOf(3) # 0
        /\ exits[Retire(SlotOf(2))][2] = globals["g"]
        /\ output[SlotOf(3)].inputs = <<globals["g"], globals["g"]>>

(* C6 as stated: in a = 5 + 3; return a * 4 the add is issued at cycle 0   *)
(* and retires at cycle 2.                                                 *)
SimpleTestAddAtCycle0 ==
    (body = simple_test /\ ScheduleReturned) =>
        /\ output[1].cls = "AddIsn"
        /\ 2 \in DOMAIN exits /\ exits[2][1] = program[2].outputs[1]

(* C6 amended: the input instruction takes cycle 0, the add is issued at   *)
(* cycle 1 and retires at cycle 3, no-ops fill the cycles at which the     *)
(* add's result is not yet readable, the multiply is issued after the      *)
(* add has retired and the output instruction after the multiply has.      *)
Classes(out) == [s \in 1..Len(out) |-> out[s].cls]

SimpleTestSchedule ==
    (body = simple_test /\ ScheduleReturned) =>
        LET add == SlotOf(2)
            mul == SlotOf(3)
            out == SlotOf(4)
        IN  /\ output[1].cls = "InputIsn"
            /\ Cycle(add) = 1 /\ issued[add].cls = "AddIsn" /\ Retire(add) = 3
            /\ issued[mul].cls = "MulIsn" /\ Cycle(mul) > Retire(add)
            /\ \A s \in (add + 1)..(mul - 1) : output[s].cls = "NopIsn"
            /\ mul - 1 >= add + 1
            /\ issued[out].cls = "OutputIsn" /\ Cycle(out) > Retire(mul)
            /\ \A s \in (mul + 1)..(out - 1) : output[s].cls = "NopIsn"
            /\ Classes(output) = <<"InputIsn", "AddIsn", "NopIsn", "NopIsn", "MulIsn",
                                   "NopIsn", "NopIsn", "NopIsn", "OutputIsn">>

WitnessSimpleTestSchedule ==
    body = simple_test /\ pc = "scheduled" /\ Len(output) > 4

(* C7 as stated: the opcode is in the top 3 bits of the word and the       *)
(* target register in its lowest register-width bits.                      *)
OpcodeMostSignificant ==
    pc = "encoded" =>
        \A s \in Slots :
            /\ Field(words[s], 3 * reg_bits, opcode_bits) = Opcode(output[s].cls)
            /\ Field(words[s], 0, reg_bits) = Get(cp_exits, Cycle(s), 0)

(* C7 amended: the fields are laid out least-significant first: the opcode *)
(* in the lowest 3 bits, then the first input, then the second input, and  *)
(* the target register in the highest register-width bits.                 *)
OpcodeLeastSignificant ==
    pc = "encoded" =>
        \A s \in Slots :
            LET ins == output[s].inputs
            IN  /\ words[s] % Pow2(opcode_bits) = Opcode(output[s].cls)
                /\ Field(words[s], opcode_bits, reg_bits)
                     = (IF Len(ins) >= 1 THEN ins[1] ELSE 0)
                /\ Field(words[s], opcode_bits + reg_bits, reg_bits)
                     = (IF Len(ins) >= 2 THEN ins[2] ELSE 0)
                /\ words[s] \div Pow2(opcode_bits + 2 * reg_bits)
                     = Get(cp_exits, Cycle(s), 0)

WitnessOpcodeLeastSignificant ==
    /\ pc = "encoded"
    /\ \E s \in Slots :
          /\ Len(output[s].inputs) = 2
          /\ output[s].inputs[1] # output[s].inputs[2]
          /\ output[s].inputs[1] > 0
          /\ Cycle(s) \in DOMAIN cp_exits

(* C8 as stated: the target field of the word of cycle c is 0 when the     *)
(* instruction issued at c has no output, and otherwise the register that  *)
(* instruction's result is written to.                                     *)
TargetField(s) == words[s] \div Pow2(opcode_bits + 2 * reg_bits)

TargetOfIssuedInstruction ==
    pc = "encoded" =>
        \A s \in Slots :
            TargetField(s) = (IF issued[s].outputs = <<>> THEN 0
                              ELSE exits[Retire(s)][2])

(* C8 amended: the target field of the word of cycle c is the register     *)
(* written by the instruction that retires at cycle c (issued its latency  *)
(* earlier), and 0 when no instruction retires at cycle c; it does not     *)
(* depend on whether the instruction issued at c has an output.            *)
TargetOfRetiringInstruction ==
    pc = "encoded" =>
        \A s \in Slots :
            LET rs == {p \in OutputSlots : Retire(p) = Cycle(s)}
            IN  /\ rs = {} => TargetField(s) = 0
                /\ \A p \in rs : TargetField(s) = exits[Retire(p)][2]

WitnessTargetOfRetiringInstruction ==
    /\ pc = "encoded"
    /\ \E s \in Slots :
          /\ issued[s].outputs = <<>>
          /\ \E p \in OutputSlots : Retire(p) = Cycle(s) /\ TargetField(s) > 0
    /\ \E s \in Slots : issued[s].outputs # <<>> /\ TargetField(s) = 0

(* C9: the reserved region is never used as scratch.  Every register       *)
(* allocate_register returns, every Exit Map target and every register     *)
(* handed to free_register is >= reserved_data, the Data Table length      *)
(* after IR building; free_register's assertion never fails.               *)
ReservedNeverScratch ==
    Scheduling =>
        /\ reserved_data = Len(data)
        /\ last_alloc # None => last_alloc >= reserved_data
        /\ \A e \in DOMAIN exits : exits[e][2] >= reserved_data
        /\ \A r \in last_freed : r >= reserved_data
        /\ err # "AssertionError"

WitnessReservedNeverScratch ==
    /\ pc = "schedule"
    /\ reserved_data >= 2
    /\ last_freed # {}
    /\ last_alloc # None /\ last_alloc \in last_freed

(* C10: schedule length.  When schedule() returns, the schedule has one    *)
(* slot per cycle from cycle 0 and at least 1 + the largest Exit Map cycle *)
(* of them, so every retirement cycle indexes a slot.                      *)
ScheduleCoversExits ==
    ScheduleReturned =>
        /\ Len(output) >= 1 + SetMax(DOMAIN exits)
        /\ \A e \in DOMAIN exits : e + 1 \in Slots

(* the padding of schedule() was needed: the last slots are its no-ops     *)
WitnessScheduleCoversExits ==
    /\ pc = "scheduled"
    /\ output[Len(output)].cls = "NopIsn"
    /\ Len(output) = 1 + SetMax(DOMAIN exits)
    /\ \E s \in Slots : output[s].cls = "OutputIsn"

----------------------------------------------------------------------------
(* The literals of the input function, read off the tree in the order the  *)
(* builder walks it (left operand first, nothing past the first return).   *)

RECURSIVE LiteralsOf(_)
LiteralsOf(node) ==
    CASE node.k = "Num" -> <<node.n>>
      [] node.k = "BinOp" -> LiteralsOf(node.left) \o LiteralsOf(node.right)
      [] node.k \in {"Assign", "Return"} -> LiteralsOf(node.value)
      [] OTHER -> <<>>

RECURSIVE BodyLiterals(_)
BodyLiterals(b) ==
    IF b = <<>> THEN <<>>
    ELSE LiteralsOf(Head(b))
           \o (IF Head(b).k = "Return" THEN <<>> ELSE BodyLiterals(Tail(b)))

RECURSIVE Dedup(_)
Dedup(s) ==
    IF s = <<>> THEN <<>>
    ELSE LET d == Dedup(SubSeq(s, 1, Len(s) - 1))
             x == s[Len(s)]
         IN  IF x \in Range(d) THEN d ELSE Append(d, x)

CompileReturned == pc \in {"compiled", "dimensioned", "encoded"}

(* C11: data image layout and sizing.  The data image compile returns is   *)
(* one zero per declared global in declaration order, then the distinct    *)
(* literals in order of first occurrence, then only zeros, and every       *)
(* register index of a scheduled input or of an Exit Map target indexes it *)
DataImageLayout ==
    CompileReturned =>
        LET gs == GlobalNames(body)
            lits == Dedup(BodyLiterals(body))
            n == Len(gs) + Len(lits)
        IN  /\ Len(cp_data) >= n
            /\ \A i \in 1..Len(gs) : cp_data[i] = 0 /\ globals[gs[i]] = i - 1
            /\ \A i \in 1..Len(lits) : cp_data[Len(gs) + i] = lits[i]
            /\ \A i \in (n + 1)..Len(cp_data) : cp_data[i] = 0
            /\ \A s \in Slots : \A j \in 1..Len(output[s].inputs) :
                  output[s].inputs[j] \in 0..(Len(cp_data) - 1)
            /\ \A e \in DOMAIN cp_exits : cp_exits[e] \in 0..(Len(cp_data) - 1)

WitnessDataImageLayout ==
    /\ pc = "compiled"
    /\ Len(GlobalNames(body)) >= 2
    /\ Len(Dedup(BodyLiterals(body))) >= 2
    /\ Len(cp_data) > Len(GlobalNames(body)) + Len(Dedup(BodyLiterals(body)))
    /\ \E e \in DOMAIN cp_exits : cp_exits[e] = Len(cp_data) - 1

(* C12: constant interning.  Literals of equal value resolve to the same   *)
(* Data Table slot and the table holds one slot per distinct literal value *)
(* (a = 2 + 2: a single slot for 2, both operands of the add).             *)
ConstantInterning ==
    LET R == Cardinality(DOMAIN globals)
    IN  /\ \A n \in DOMAIN constants :
              constants[n] \in R..(Len(data) - 1) /\ data[constants[n] + 1] = n
        /\ \A i, j \in (R + 1)..Len(data) : data[i] = data[j] => i = j
        /\ Len(data) = R + Cardinality(DOMAIN constants)
        /\ (pc \notin {"globals", "input"} /\ err = "" /\ idx > Len(body)) =>
              Len(data) = R + Len(Dedup(BodyLiterals(body)))
        /\ (body = interning_test /\ pc = "schedule") =>
              data = <<2>> /\ program[2].inputs = <<0, 0>>

WitnessConstantInterning ==
    /\ body = interning_test
    /\ pc = "schedule"
    /\ Len(program) = 2
    /\ program[2].cls = "AddIsn"
    /\ Len(BodyLiterals(body)) = 2

(* C13: SSA uniqueness.  In the IR instruction list every virtual          *)
(* (negative) register is the output of exactly one instruction, and every *)
(* virtual register used as an input is the output of an instruction       *)
(* earlier in the list.                                                    *)
Producers(v) == {i \in 1..Len(program) : v \in Range(program[i].outputs)}

SSAUnique ==
    /\ \A v \in (next_ssa_reg + 1)..(-1) : Cardinality(Producers(v)) = 1
    /\ \A i \in 1..Len(program) :
          /\ \A v \in Range(program[i].outputs) :
                v \in (next_ssa_reg + 1)..(-1) /\ Producers(v) = {i}
          /\ \A v \in Range(program[i].inputs) :
                v < 0 => \E p \in 1..(i - 1) : Producers(v) = {p}

WitnessSSAUnique ==
    /\ pc = "schedule"
    /\ Len(program) >= 4
    /\ \E i \in 1..Len(program) :
          /\ Len(program[i].inputs) = 2
          /\ program[i].inputs[1] < 0 /\ program[i].inputs[2] < 0
          /\ program[i].inputs[1] # program[i].inputs[2]

----------------------------------------------------------------------------
(* Readiness, stated on the Exit Map: the producer of virtual register v   *)
(* has an entry before cycle c, or at c at the latest.                     *)
RetiredBefore(ex, v, c) == \E e \in DOMAIN ex : ex[e][1] = v /\ e < c
RetiredAtOrBefore(ex, v, c) == \E e \in DOMAIN ex : ex[e][1] = v /\ e <= c

VirtualInputs(isn) == {v \in Range(isn.inputs) : v < 0}

Unclaimed(ex, c, isn) == isn.outputs # <<>> => ExitCycle(c, isn) \notin DOMAIN ex

(* C14 as stated: an instruction whose producers have retired at or before *)
(* the current cycle, its own retirement cycle unclaimed, can be issued at *)
(* the current cycle.                                                      *)
ReadyAtRetirementCycle ==
    pc = "schedule" =>
        \A i \in 1..Len(remaining) :
            ( /\ \A v \in VirtualInputs(remaining[i]) :
                    RetiredAtOrBefore(exits, v, Len(output))
              /\ Unclaimed(exits, Len(output), remaining[i]) )
            => CanSchedule(exits, Len(output), remaining[i])

(* C14 amended: a virtual input is ready when its producer has retired     *)
(* strictly before the current cycle: schedule_one accepts an instruction  *)
(* exactly when every producer's entry is at an earlier cycle and its own  *)
(* retirement cycle is unclaimed, so a consumer of an entry at cycle c is  *)
(* issued at c + 1 at the earliest.                                        *)
ReadyAfterRetirementCycle ==
    /\ pc = "schedule" =>
          \A i \in 1..Len(remaining) :
              CanSchedule(exits, Len(output), remaining[i])
                <=> ( /\ \A v \in VirtualInputs(remaining[i]) :
                            RetiredBefore(exits, v, Len(output))
                      /\ Unclaimed(exits, Len(output), remaining[i]) )
    /\ \A s \in 1..Len(issued) : \A v \in VirtualInputs(issued[s]) :
          \A e \in DOMAIN exits : exits[e][1] = v => e < Cycle(s)

(* the producer's entry is at the current cycle, the retirement cycle is   *)
(* free, and the consumer is not accepted                                  *)
WitnessReadyAfterRetirementCycle ==
    /\ pc = "schedule"
    /\ \E i \in 1..Len(remaining) :
          /\ \E v \in VirtualInputs(remaining[i]) :
                Len(output) \in DOMAIN exits /\ exits[Len(output)][1] = v
          /\ \A v \in VirtualInputs(remaining[i]) :
                RetiredAtOrBefore(exits, v, Len(output))
          /\ Unclaimed(exits, Len(output), remaining[i])
          /\ ~CanSchedule(exits, Len(output), remaining[i])
    /\ \E s \in 1..Len(issued) : \E v \in VirtualInputs(issued[s]) :
          \E e \in DOMAIN exits : exits[e][1] = v /\ e + 1 = Cycle(s)

----------------------------------------------------------------------------
(* An instruction can be issued at cycle c: its virtual inputs are         *)
(* resolvable and, if it has an output, its retirement cycle is unclaimed. *)
Issuable(ex, c, isn) ==
    /\ \A v \in VirtualInputs(isn) : RetiredBefore(ex, v, c)
    /\ Unclaimed(ex, c, isn)

(* The place of an instruction in the original IR list                     *)
ProgIndex(isn) == CHOOSE i \in 1..Len(program) : program[i] = isn

(* A turn of the scheduling loop that fills one cycle and goes on          *)
LoopTurn == pc = "schedule" /\ pc' = "schedule" /\ Len(output') = Len(output) + 1

(* C15: priority order.  At every cycle the instruction issued is the      *)
(* first, in original IR order, of the not-yet-scheduled instructions that *)
(* can be issued at that cycle; a no-op is emitted only if none can.       *)
PriorityStep ==
    LoopTurn =>
        LET c == Len(output)
            can == {i \in 1..Len(remaining) : Issuable(exits, c, remaining[i])}
        IN  IF can = {}
            THEN /\ output'[c + 1].cls = "NopIsn"
                 /\ remaining' = remaining
            ELSE \E i \in can :
                    /\ \A k \in can : ProgIndex(remaining[i]) <= ProgIndex(remaining[k])
                    /\ issued'[c + 1] = remaining[i]
                    /\ output'[c + 1].cls = remaining[i].cls
                    /\ remaining' = RemoveAt(remaining, i)

PriorityOrder == [][PriorityStep]_vars

(* a later instruction of the IR has been issued ahead of an earlier one   *)
(* that could not be                                                       *)
WitnessPriorityOrder ==
    /\ pc = "schedule"
    /\ remaining # <<>>
    /\ \E s \in 1..Len(issued) :
          /\ issued[s].cls # "NopIsn"
          /\ ProgIndex(issued[s]) > ProgIndex(remaining[1])
    /\ \E s \in 1..Len(issued) : issued[s].cls = "NopIsn"

----------------------------------------------------------------------------
(* A turn of the scheduling loop that issues an instruction                *)
IssueTurn == LoopTurn /\ issued'[Len(output) + 1].cls # "NopIsn"

(* Input j of the instruction just issued is virtual and no instruction    *)
(* left in the working set reads it                                        *)
NoLongerRead(isn, j) ==
    /\ isn.inputs[j] < 0
    /\ \A i \in 1..Len(remaining') : isn.inputs[j] \notin Range(remaining'[i].inputs)

(* C16: eager freeing.  When an instruction is issued, the register of     *)
(* each of its virtual inputs is freed if and only if no instruction still *)
(* in the working set reads that virtual register; registers of concrete   *)
(* inputs are never freed and no other register leaves the in-use set.     *)
EagerFreeStep ==
    IssueTurn =>
        LET isn == issued'[Len(output) + 1]
            out == output'[Len(output) + 1]
            js == 1..Len(isn.inputs)
            expected == {out.inputs[j] : j \in {q \in js : NoLongerRead(isn, q)}}
        IN  /\ last_freed' = expected
            /\ \A j \in js :
                  isn.inputs[j] < 0 => (out.inputs[j] \in last_freed' <=> NoLongerRead(isn, j))
            /\ \A j \in js : isn.inputs[j] >= 0 => out.inputs[j] \notin last_freed'
            /\ (used_registers \ used_registers') \subseteq expected
            /\ used_registers' = (used_registers \ expected)
                                   \cup (IF last_alloc' = None THEN {} ELSE {last_alloc'})

EagerFreeing == [][EagerFreeStep]_vars

(* the instruction just issued read two virtual registers: one for the     *)
(* last time, freed, the other still read by the working set, kept         *)
WitnessEagerFreeing ==
    /\ pc = "schedule"
    /\ Len(issued) > 0
    /\ LET isn == issued[Len(issued)]
           out == output[Len(issued)]
       IN  /\ Len(isn.inputs) = 2
           /\ isn.inputs[1] < 0 /\ isn.inputs[2] < 0
           /\ out.inputs[2] \in last_freed
           /\ out.inputs[1] \notin last_freed
           /\ out.inputs[1] \in used_registers
           /\ \E i \in 1..Len(remaining) : isn.inputs[1] \in Range(remaining[i].inputs)

(* C17: lowest-free-index allocation.  The register given to an issued     *)
(* instruction with an output is the smallest index >= 0 that is not in    *)
(* the in-use set once the instruction's own frees are applied, and it is  *)
(* added to the in-use set.                                                *)
LowestFreeStep ==
    (IssueTurn /\ issued'[Len(output) + 1].outputs # <<>>) =>
        LET isn == issued'[Len(output) + 1]
            inuse == used_registers \ last_freed'
        IN  /\ last_alloc' >= 0
            /\ last_alloc' \notin inuse
            /\ \A r \in 0..(last_alloc' - 1) : r \in inuse
            /\ last_alloc' \in used_registers'
            /\ exits'[ExitCycle(Len(output), isn)] = <<isn.outputs[1], last_alloc'>>

LowestFreeIndex == [][LowestFreeStep]_vars

(* the register just freed is handed out again although a higher one is    *)
(* in use                                                                  *)
WitnessLowestFreeIndex ==
    /\ pc = "schedule"
    /\ last_alloc # None
    /\ last_alloc \in last_freed
    /\ last_alloc >= reserved_data
    /\ \E r \in used_registers : r > last_alloc

(* C18: schedule completeness.  When schedule() returns, every IR          *)
(* instruction is in the schedule exactly once with its opcode unchanged,  *)
(* every other slot is a no-op, each cycle holds one instruction and no    *)
(* input operand of the schedule is negative.                              *)
SlotsOfClass(cls) == {s \in Slots : output[s].cls = cls}
ProgramOfClass(cls) == {i \in 1..Len(program) : program[i].cls = cls}

ScheduleComplete ==
    ScheduleReturned =>
        /\ remaining = <<>>
        /\ Len(issued) = Len(output)
        /\ \A i \in 1..Len(program) :
              Cardinality({s \in Slots : issued[s] = program[i]}) = 1
        /\ \A s \in Slots :
              /\ output[s].cls = issued[s].cls
              /\ Opcode(output[s].cls) = Opcode(issued[s].cls)
              /\ output[s].cls # "NopIsn" => \E i \in 1..Len(program) : program[i] = issued[s]
              /\ Len(output[s].inputs) = Len(issued[s].inputs)
              /\ \A j \in 1..Len(output[s].inputs) : output[s].inputs[j] >= 0
        /\ \A cls \in {"AddIsn", "SubIsn", "MulIsn", "CopyIsn", "InputIsn", "OutputIsn"} :
              Cardinality(SlotsOfClass(cls)) = Cardinality(ProgramOfClass(cls))
        /\ Cardinality(Slots \ SlotsOfClass("NopIsn")) = Len(program)

WitnessScheduleComplete ==
    /\ pc = "scheduled"
    /\ Len(program) >= 4
    /\ SlotsOfClass("NopIsn") # {}
    /\ \E s \in Slots : \E j \in 1..Len(issued[s].inputs) :
          issued[s].inputs[j] < 0 /\ output[s].inputs[j] >= reserved_data
    /\ \E s1, s2 \in Slots :
          /\ s1 < s2
          /\ output[s1].cls # "NopIsn" /\ output[s2].cls # "NopIsn"
          /\ ProgIndex(issued[s1]) > ProgIndex(issued[s2])

----------------------------------------------------------------------------
(* The slots whose instruction reads virtual register v                    *)
Consumers(v) == {s \in 1..Len(issued) : v \in Range(issued[s].inputs)}

(* The value of the Exit Map entry at cycle e is still needed: its write   *)
(* is pending or an instruction of the working set reads it                *)
Live(e) ==
    \/ e >= Len(output)
    \/ \E i \in 1..Len(remaining) : exits[e][1] \in Range(remaining[i].inputs)

(* C19: no clobbering of live values.  No other Exit Map entry writes the  *)
(* register of virtual register v at a cycle from v's retirement up to the *)
(* issue cycle of a consumer of v; two virtual registers with an unissued  *)
(* consumer or a pending write never share a physical register.            *)
NoClobbering ==
    Scheduling =>
        /\ \A e1 \in DOMAIN exits : \A e2 \in DOMAIN exits \ {e1} :
              exits[e2][2] = exits[e1][2] =>
                  \A s \in Consumers(exits[e1][1]) : ~(e1 <= e2 /\ e2 <= Cycle(s))
        /\ pc = "schedule" =>
              \A e1 \in DOMAIN exits : \A e2 \in DOMAIN exits \ {e1} :
                  (Live(e1) /\ Live(e2)) => exits[e1][2] # exits[e2][2]

(* a register is written again, by the very instruction that read it last *)
WitnessNoClobbering ==
    /\ pc = "scheduled"
    /\ \E e1 \in DOMAIN exits : \E e2 \in DOMAIN exits :
          /\ e1 < e2
          /\ exits[e1][2] = exits[e2][2]
          /\ \E s \in Consumers(exits[e1][1]) : issued[s].outputs = <<exits[e2][1]>>
          /\ Cardinality(Consumers(exits[e1][1])) >= 2

(* C20: encode/decode round trip.  With the register width set by          *)
(* dimension_memories to the bit length of (data size - 1), every operand  *)
(* and target register of every word fits the register width, so slicing   *)
(* the word as the substrate does (opcode in the lowest opcode_bits, then  *)
(* first input, second input, target, register-width bits each) gives back *)
(* the opcode, the inputs and the Exit Map target, and the word is below   *)
(* 2^(opcode width + 3 x register width).                                  *)
Operand(isn, j) == IF Len(isn.inputs) >= j THEN isn.inputs[j] ELSE 0

EncodeRoundTrip ==
    pc = "encoded" =>
        /\ data_ram_size = Len(cp_data)
        /\ program_rom_size = Len(words)
        /\ Pow2(reg_bits) >= data_ram_size
        /\ reg_bits > 0 => Pow2(reg_bits - 1) < data_ram_size
        /\ \A s \in Slots :
              LET exit == Get(cp_exits, Cycle(s), 0)
              IN  /\ Operand(output[s], 1) < Pow2(reg_bits)
                  /\ Operand(output[s], 2) < Pow2(reg_bits)
                  /\ exit < Pow2(reg_bits)
                  /\ Field(words[s], 0, opcode_bits) = Opcode(output[s].cls)
                  /\ Field(words[s], opcode_bits, reg_bits) = Operand(output[s], 1)
                  /\ Field(words[s], opcode_bits + reg_bits, reg_bits) = Operand(output[s], 2)
                  /\ Field(words[s], opcode_bits + 2 * reg_bits, reg_bits) = exit
                  /\ words[s] >= 0
                  /\ words[s] < Pow2(instruction_bits(reg_bits))

(* the highest register of the data memory is a target, and its index is   *)
(* a power of two: it needs every bit of the register width                *)
WitnessEncodeRoundTrip ==
    /\ pc = "encoded"
    /\ reg_bits >= 2
    /\ Len(cp_data) - 1 = Pow2(reg_bits - 1)
    /\ \E s \in Slots :
          /\ Cycle(s) \in DOMAIN cp_exits
          /\ cp_exits[Cycle(s)] = Len(cp_data) - 1
          /\ Field(words[s], opcode_bits + 2 * reg_bits, reg_bits) = Len(cp_data) - 1

====
